---------------------------- MODULE Spec2Model ----------------------------
(***************************************************************************)
(* Account REST service (service/routes.py): the six handlers over the     *)
(* Account store.  Two specifications share the state:                     *)
(*   Spec      one request at a time, each handler one atomic step,        *)
(*             followed by the request's teardown;                         *)
(*   SpecConc  two workers whose find() and delete()/update() calls are    *)
(*             separate store steps.                                       *)
(* service/models.py and service/common are not part of the sources at     *)
(* hand; Account.deserialize/serialize/create/update/delete/find/all and   *)
(* the DataValidationError -> 400 handler follow the written               *)
(* specification.                                                          *)
(***************************************************************************)
EXTENDS Integers, Sequences, FiniteSets, TLC

VARIABLES
    store,      \* the Account table: a set of rows
    nextId,     \* the table's id sequence
    request,    \* the request being handled (NoRequest between requests)
    response,   \* its response (NoResponse between requests)
    before,     \* the table as it was when the request arrived
    everIds,    \* every id the store has assigned so far
    deleted,    \* every id whose row a DELETE has removed
    pc,         \* SpecConc: each worker's position in its handler
    ac,         \* SpecConc: each worker's loaded record and request
    stale       \* SpecConc: delete()/update() calls made for an id with no row

vars == <<store, nextId, request, response, before, everIds, deleted, pc, ac, stale>>

\* The number of successful creates a run may perform.
MaxCreates == 2

Workers == {1, 2}
Gens == {1, 2}

\* Ids a request path may carry: 0 (never assigned) and every id the store
\* can assign.
RouteIds == 0 .. MaxCreates

Required == <<"name", "email", "address", "phone_number">>
RequiredSet == {Required[i] : i \in 1 .. Len(Required)}
OptionalSets == {{}, {"date_joined"}, {"city", "id"}}

IsoDates == <<"2024-01-01", "2024-02-02", "2026-11-05">>
Today == Len(IsoDates)

\* date.isoformat() and date.fromisoformat() over the days of IsoDates.
isoformat(d) == IsoDates[d]
fromisoformat(s) == CHOOSE d \in 1 .. Len(IsoDates) : IsoDates[d] = s

FieldValues ==
    [name         |-> <<"alice", "benjamin">>,
     email        |-> <<"alice@mail.com", "benjamin@gmail.com">>,
     address      |-> <<"1 Main St", "2 High St">>,
     phone_number |-> <<"555-0001", "555-0002">>,
     city         |-> <<"goda", "lome">>,
     date_joined  |-> <<IsoDates[1], IsoDates[2]>>]

ValueOf(k, g) == IF k = "id" THEN g ELSE FieldValues[k][g]

\* A JSON object with the keys S, every value of generation g.
Payload(S, g) == [k \in S |-> ValueOf(k, g)]

Payloads == {Payload(R \cup O, g) : R \in SUBSET RequiredSet, O \in OptionalSets, g \in Gens}

\* A request body: absent, or a JSON object (possibly {}).
NoBody == [present |-> FALSE, data |-> <<>>]
Bodies == {NoBody} \cup {[present |-> TRUE, data |-> p] : p \in Payloads}

\* The Content-Type header: absent, or one value.
ContentTypes == {<<>>, <<"application/json">>, <<"application/json; charset=utf-8">>, <<"test/html">>}

\* request.get_json(): the parsed object, None (here the empty object) when
\* there is no body.
get_json(body) == body.data

\* Python truthiness of request.get_json(): None and {} are falsy.
Truthy(body) == body.present /\ DOMAIN body.data # {}

NoRequest == [method |-> "NONE", route |-> "", id |-> 0, content_type |-> <<>>, body |-> NoBody]

----------------------------------------------------------------------------
(* Account record and persistence operations *)

\* Account(): no id, no field set yet.
NewAccount ==
    [id |-> 0, name |-> "", email |-> "", address |-> "", phone_number |-> "", date_joined |-> 0]

\* One assignment of deserialize: the record after setting field k from data.
SetField(a, k, data) == [a EXCEPT ![k] = data[k]]

\* deserialize(data): assigns name, email, address, phone_number in order and
\* raises at the first one absent, leaving the earlier assignments on the
\* record; then date_joined when present.  Unrecognized keys are ignored.
RECURSIVE DeserializeFrom(_, _, _)
DeserializeFrom(a, data, i) ==
    IF i > Len(Required)
    THEN [error |-> FALSE, missing |-> "",
          account |-> IF "date_joined" \in DOMAIN data
                      THEN [a EXCEPT !.date_joined = fromisoformat(data["date_joined"])]
                      ELSE a]
    ELSE IF Required[i] \notin DOMAIN data
         THEN [error |-> TRUE, missing |-> Required[i], account |-> a]
         ELSE DeserializeFrom(SetField(a, Required[i], data), data, i + 1)

deserialize(a, data) == DeserializeFrom(a, data, 1)

\* serialize(): the six attributes, date_joined as an ISO string.
serialize(a) ==
    [id |-> a.id, name |-> a.name, email |-> a.email, address |-> a.address,
     phone_number |-> a.phone_number, date_joined |-> isoformat(a.date_joined)]

Ids(rows) == {r.id : r \in rows}

\* Account.find(id): the rows with that id (none, or the one).
find(rows, id) == {r \in rows : r.id = id}

\* Account.all(): the rows as a list, in id order.
RECURSIVE all(_)
all(rows) ==
    IF rows = {} THEN <<>>
    ELSE LET r == CHOOSE x \in rows : \A y \in rows : x.id <= y.id
         IN <<r>> \o all(rows \ {r})

\* create(): inserts the record under the sequence's next id; date_joined
\* defaults to the creation date.
create(rows, seq, a) ==
    LET row == [a EXCEPT !.id = seq,
                         !.date_joined = IF a.date_joined = 0 THEN Today ELSE a.date_joined]
    IN [store |-> rows \cup {row}, nextId |-> seq + 1, account |-> row]

\* update(): writes the record's fields to the row with its id.
update(rows, a) == {r \in rows : r.id # a.id} \cup {x \in {a} : a.id \in Ids(rows)}

\* delete(): removes the row with the record's id.
delete(rows, a) == {r \in rows : r.id # a.id}

----------------------------------------------------------------------------
(* Responses *)

PyNone == [type |-> "NoneType", val |-> ""]
\* The DataValidationError deserialize raises, naming the missing field.
PyExc(missing) == [type |-> "DataValidationError", val |-> missing]

NoAccount == [id |-> 0, name |-> "", email |-> "", address |-> "", phone_number |-> "", date_joined |-> ""]

Reply(status, kind, error, details, account, accounts) ==
    [status |-> status, kind |-> kind, error |-> error, details |-> details,
     account |-> account, accounts |-> accounts, location |-> ""]

NoResponse == Reply(0, "none", "", PyNone, NoAccount, <<>>)

ErrorBody(status, msg) == Reply(status, "error", msg, PyNone, NoAccount, <<>>)
AccountBody(status, a) == Reply(status, "account", "", PyNone, a, <<>>)
ListBody(status, l) == Reply(status, "list", "", PyNone, NoAccount, l)
EmptyBody(status) == Reply(status, "empty", "", PyNone, NoAccount, <<>>)

\* An exception no handler catches: the framework answers 500.
ServerError == ErrorBody(500, "Internal Server Error")

\* jsonify: the JSON encoder takes strings, numbers, None, dicts and lists;
\* any other object (an exception instance) makes it raise TypeError.
JsonTypes == {"str", "int", "NoneType"}
jsonify(body) == IF body.details.type \in JsonTypes THEN body ELSE ServerError

\* check_content_type without the comparison: any header value passes.
check_content_type_any(content_type, media_type) ==
    /\ Len(content_type) > 0
    /\ content_type[1] # ""

\* check_content_type(media_type): TRUE when the request passes.
check_content_type(content_type, media_type) ==
    /\ Len(content_type) > 0
    /\ content_type[1] # ""
    /\ content_type[1] = media_type


----------------------------------------------------------------------------
(* Request handlers: each maps the table, the id sequence and the request  *)
(* to the response and the table after it.                                 *)

Outcome(resp, rows, seq) == [response |-> resp, store |-> rows, nextId |-> seq]

\* create_accounts that creates whatever deserialize left on the record.
create_accounts_unvalidated(rows, seq, req) ==
    IF ~check_content_type(req.content_type, "application/json")
    THEN Outcome(ErrorBody(415, "Content-Type must be application/json"), rows, seq)
    ELSE LET d == deserialize(NewAccount, get_json(req.body))
             c == create(rows, seq, d.account)
         IN Outcome(IF d.error THEN ErrorBody(400, "Bad Request")
                    ELSE [jsonify(AccountBody(201, serialize(c.account)))
                             EXCEPT !.location = "/"],
                    c.store, c.nextId)

\* POST /accounts
create_accounts_handler(rows, seq, req) ==
    IF ~check_content_type(req.content_type, "application/json")
    THEN Outcome(ErrorBody(415, "Content-Type must be application/json"), rows, seq)
    ELSE LET d == deserialize(NewAccount, get_json(req.body))
         IN IF d.error
            THEN Outcome(ErrorBody(400, "Bad Request"), rows, seq)
            ELSE LET c == create(rows, seq, d.account)
                 IN Outcome([jsonify(AccountBody(201, serialize(c.account)))
                                EXCEPT !.location = "/"],
                            c.store, c.nextId)

\* read_accounts without the empty-list branch.
read_accounts_no_404(rows, seq, req) ==
    LET accounts == all(rows)
    IN Outcome(jsonify(ListBody(200, [i \in 1 .. Len(accounts) |-> serialize(accounts[i])])),
               rows, seq)

\* GET /accounts
read_accounts_handler(rows, seq, req) ==
    LET accounts == all(rows)
    IN IF Len(accounts) > 0
       THEN Outcome(jsonify(ListBody(200, [i \in 1 .. Len(accounts) |-> serialize(accounts[i])])),
                    rows, seq)
       ELSE Outcome(jsonify(ErrorBody(404, "accounts not found")), rows, seq)

\* read_account answering with the list handler's message.
read_account_list_message(rows, seq, req) ==
    LET account == find(rows, req.id)
    IN IF account # {}
       THEN Outcome(jsonify(AccountBody(200, serialize(CHOOSE a \in account : TRUE))), rows, seq)
       ELSE Outcome(jsonify(ErrorBody(404, "accounts not found")), rows, seq)

\* GET /accounts/<id>
read_account_handler(rows, seq, req) ==
    LET account == find(rows, req.id)
    IN IF account # {}
       THEN Outcome(jsonify(AccountBody(200, serialize(CHOOSE a \in account : TRUE))), rows, seq)
       ELSE Outcome(jsonify(ErrorBody(404, "account not found")), rows, seq)

\* update_account that deserializes onto a new Account and creates it.
update_account_recreate(rows, seq, req) ==
    IF ~Truthy(req.body)
    THEN Outcome(jsonify(ErrorBody(405, "id not found")), rows, seq)
    ELSE IF find(rows, req.id) = {}
         THEN Outcome(jsonify(ErrorBody(404, "id not found")), rows, seq)
         ELSE LET d == deserialize(NewAccount, get_json(req.body))
                  c == create(rows, seq, d.account)
              IN IF d.error
                 THEN Outcome(jsonify(Reply(409, "error", "attribute error",
                                            PyExc(d.missing), NoAccount, <<>>)),
                              rows, seq)
                 ELSE Outcome(jsonify(AccountBody(200, serialize(c.account))),
                              c.store, c.nextId)

\* update_account without the ac.update() call.
update_account_no_update(rows, seq, req) ==
    IF ~Truthy(req.body)
    THEN Outcome(jsonify(ErrorBody(405, "id not found")), rows, seq)
    ELSE LET found == find(rows, req.id)
         IN IF found = {}
            THEN Outcome(jsonify(ErrorBody(404, "id not found")), rows, seq)
            ELSE LET d == deserialize(CHOOSE a \in found : TRUE, get_json(req.body))
                 IN IF d.error
                    THEN Outcome(jsonify(Reply(409, "error", "attribute error",
                                               PyExc(d.missing), NoAccount, <<>>)),
                                 rows, seq)
                    ELSE Outcome(jsonify(AccountBody(200, serialize(d.account))), rows, seq)

\* PUT /accounts/<id>
update_account_handler(rows, seq, req) ==
    IF ~Truthy(req.body)
    THEN Outcome(jsonify(ErrorBody(405, "id not found")), rows, seq)
    ELSE LET found == find(rows, req.id)
         IN IF found = {}
            THEN Outcome(jsonify(ErrorBody(404, "id not found")), rows, seq)
            ELSE LET d == deserialize(CHOOSE a \in found : TRUE, get_json(req.body))
                 IN IF d.error
                    THEN Outcome(jsonify(Reply(409, "error", "attribute error",
                                               PyExc(d.missing), NoAccount, <<>>)),
                                 rows, seq)
                    ELSE Outcome(jsonify(AccountBody(200, serialize(d.account))),
                                 update(rows, d.account), seq)

\* delete_account without the existence check.
delete_account_unchecked(rows, seq, req) ==
    Outcome(EmptyBody(204), {r \in rows : r.id # req.id}, seq)

\* DELETE /accounts/<id>
delete_account_handler(rows, seq, req) ==
    LET found == find(rows, req.id)
    IN IF found = {}
       THEN Outcome(jsonify(ErrorBody(404, "id not found")), rows, seq)
       ELSE Outcome(EmptyBody(204), delete(rows, CHOOSE a \in found : TRUE), seq)

----------------------------------------------------------------------------
(* Spec: one request at a time *)

Idle == request = NoRequest

\* The handler's outcome becomes the state; the ghosts record the table as
\* it was, the ids assigned and the ids deleted.
Handle(req, h) ==
    /\ Idle
    /\ h.nextId <= MaxCreates + 1
    /\ request' = req
    /\ response' = h.response
    /\ store' = h.store
    /\ nextId' = h.nextId
    /\ before' = store
    /\ everIds' = everIds \cup (Ids(h.store) \ Ids(store))
    /\ deleted' = deleted \cup (Ids(store) \ Ids(h.store))
    /\ UNCHANGED <<pc, ac, stale>>

create_accounts ==
    \E ct \in ContentTypes, body \in Bodies :
        LET req == [method |-> "POST", route |-> "/accounts", id |-> 0,
                    content_type |-> ct, body |-> body]
        IN Handle(req, create_accounts_handler(store, nextId, req))

read_accounts ==
    LET req == [method |-> "GET", route |-> "/accounts", id |-> 0,
                content_type |-> <<>>, body |-> NoBody]
    IN Handle(req, read_accounts_handler(store, nextId, req))

read_account ==
    \E id \in RouteIds :
        LET req == [method |-> "GET", route |-> "/accounts/<id>", id |-> id,
                    content_type |-> <<>>, body |-> NoBody]
        IN Handle(req, read_account_handler(store, nextId, req))

update_account ==
    \E id \in RouteIds, body \in Bodies :
        LET req == [method |-> "PUT", route |-> "/accounts/<id>", id |-> id,
                    content_type |-> <<"application/json">>, body |-> body]
        IN Handle(req, update_account_handler(store, nextId, req))

delete_account ==
    \E id \in RouteIds :
        LET req == [method |-> "DELETE", route |-> "/accounts/<id>", id |-> id,
                    content_type |-> <<>>, body |-> NoBody]
        IN Handle(req, delete_account_handler(store, nextId, req))

\* The request ends: the response is sent and the request's session, with
\* whatever the handler left on its in-memory records, is discarded.
teardown ==
    /\ ~Idle
    /\ request' = NoRequest
    /\ response' = NoResponse
    /\ before' = store
    /\ UNCHANGED <<store, nextId, everIds, deleted, pc, ac, stale>>

Init ==
    /\ store = {}
    /\ nextId = 1
    /\ request = NoRequest
    /\ response = NoResponse
    /\ before = {}
    /\ everIds = {}
    /\ deleted = {}
    /\ pc = [w \in Workers |-> "idle"]
    /\ ac = [w \in Workers |-> NewAccount]
    /\ stale = {}

Next ==
    \/ create_accounts
    \/ read_accounts
    \/ read_account
    \/ update_account
    \/ delete_account
    \/ teardown

Spec == Init /\ [][Next]_vars

----------------------------------------------------------------------------
(* SpecConc: two workers handle requests at once.  A handler's find() and  *)
(* its delete() or update() are separate store steps; everything between   *)
(* them works on the worker's in-memory record.                            *)

\* Ghosts after a store step that turns the table into rows.
StoreStep(rows) ==
    /\ store' = rows
    /\ everIds' = everIds \cup (Ids(rows) \ Ids(store))
    /\ deleted' = deleted \cup (Ids(store) \ Ids(rows))
    /\ UNCHANGED <<request, response, before>>

\* The call made for a record whose id has no row at that moment.
StaleCall(op, a) == IF a.id \in Ids(store) THEN {} ELSE {[op |-> op, id |-> a.id]}

\* POST /accounts, start to finish (create() is its only store step).
create_accounts_step(w) ==
    /\ pc[w] = "idle"
    /\ \E body \in Bodies :
        LET req == [method |-> "POST", route |-> "/accounts", id |-> 0,
                    content_type |-> <<"application/json">>, body |-> body]
            h == create_accounts_handler(store, nextId, req)
        IN /\ h.response.status = 201
           /\ h.nextId <= MaxCreates + 1
           /\ nextId' = h.nextId
           /\ StoreStep(h.store)
    /\ UNCHANGED <<pc, ac, stale>>

\* DELETE /accounts/<id>, up to ac.delete(): the find() and the 404.
delete_account_find(w) ==
    /\ pc[w] = "idle"
    /\ \E id \in RouteIds :
        LET found == find(store, id)
        IN /\ found # {}
           /\ pc' = [pc EXCEPT ![w] = "delete"]
           /\ ac' = [ac EXCEPT ![w] = CHOOSE a \in found : TRUE]
    /\ UNCHANGED <<store, nextId, request, response, before, everIds, deleted, stale>>

\* DELETE /accounts/<id>: ac.delete() and the 204.
delete_account_delete(w) ==
    /\ pc[w] = "delete"
    /\ stale' = stale \cup StaleCall("delete", ac[w])
    /\ StoreStep(delete(store, ac[w]))
    /\ pc' = [pc EXCEPT ![w] = "idle"]
    /\ ac' = [ac EXCEPT ![w] = NewAccount]
    /\ UNCHANGED nextId

\* PUT /accounts/<id>, up to ac.update(): the body check, the find() and the
\* deserialize onto the found record.
update_account_find(w) ==
    /\ pc[w] = "idle"
    /\ \E id \in RouteIds, body \in Bodies :
        LET found == find(store, id)
            d == deserialize(CHOOSE a \in found : TRUE, get_json(body))
        IN /\ Truthy(body)
           /\ found # {}
           /\ ~d.error
           /\ pc' = [pc EXCEPT ![w] = "update"]
           /\ ac' = [ac EXCEPT ![w] = d.account]
    /\ UNCHANGED <<store, nextId, request, response, before, everIds, deleted, stale>>

\* PUT /accounts/<id>: ac.update() and the 200.
update_account_update(w) ==
    /\ pc[w] = "update"
    /\ stale' = stale \cup StaleCall("update", ac[w])
    /\ StoreStep(update(store, ac[w]))
    /\ pc' = [pc EXCEPT ![w] = "idle"]
    /\ ac' = [ac EXCEPT ![w] = NewAccount]
    /\ UNCHANGED nextId

NextConc ==
    \E w \in Workers :
        \/ create_accounts_step(w)
        \/ delete_account_find(w)
        \/ delete_account_delete(w)
        \/ update_account_find(w)
        \/ update_account_update(w)

SpecConc == Init /\ [][NextConc]_vars

----------------------------------------------------------------------------
(* Properties.  Under Spec, request/response/before describe the request   *)
(* just handled: before is the table when it arrived, store the table      *)
(* after it.                                                               *)

JsonHeader == <<"application/json">>
Data == request.body.data
MissingRequired == \E k \in RequiredSet : k \notin DOMAIN Data
Existed == request.id \in Ids(before)
\* The row the request's id names, after the request and when it arrived.
RowNow == CHOOSE r \in find(store, request.id) : TRUE
RowBefore == CHOOSE r \in find(before, request.id) : TRUE

\* C1 (as stated): every POST /accounts whose payload misses a required
\* field is answered 400 and leaves the table as it was.
C1_MissingField400 ==
    (request.method = "POST" /\ MissingRequired)
        => (response.status = 400 /\ store = before)

\* C1 (amended): every POST /accounts with Content-Type application/json
\* whose payload misses a required field is answered 400 and leaves the
\* table as it was.
C1_MissingField400_Json ==
    (request.method = "POST" /\ request.content_type = JsonHeader /\ MissingRequired)
        => (response.status = 400 /\ store = before)

C1_Witness ==
    /\ request.method = "POST"
    /\ request.content_type = JsonHeader
    /\ DOMAIN Data = RequiredSet \ {"phone_number"}
    /\ response.status = 400
    /\ store # {}

\* C2: every POST /accounts whose Content-Type is absent or not exactly
\* application/json is answered 415 and creates no row, whatever the payload.
C2_WrongContentType415 ==
    (request.method = "POST" /\ request.content_type # JsonHeader)
        => (response.status = 415 /\ store = before)

C2_Witness ==
    /\ request.method = "POST"
    /\ request.content_type = <<"application/json; charset=utf-8">>
    /\ ~MissingRequired
    /\ response.status = 415
    /\ store # {}

\* C3: a successful create returns a positive id that no earlier record had
\* (not one in the table, not one since deleted); the ids in the table are
\* pairwise distinct; no request changes the id of an existing record: a
\* create only adds a row, an update keeps the set of ids and the number of
\* rows, a delete only removes rows, a read changes nothing.
C3_IdsAssignedOnce ==
    /\ (request.method = "POST" /\ response.status = 201)
         => /\ response.account.id > 0
            /\ response.account.id \notin Ids(before) \cup deleted
            /\ response.account.id \in Ids(store)
            /\ before \subseteq store
    /\ \A r1, r2 \in store : r1.id = r2.id => r1 = r2
    /\ \A r \in store : r.id > 0
    /\ request.method = "PUT"
         => (Ids(store) = Ids(before) /\ Cardinality(store) = Cardinality(before))
    /\ request.method = "DELETE" => store \subseteq before
    /\ request.method = "GET" => store = before

C3_Witness ==
    /\ request.method = "POST"
    /\ response.status = 201
    /\ deleted # {}
    /\ response.account.id = Cardinality(deleted) + 1
    /\ "id" \in DOMAIN Data
    /\ Data["id"] \in deleted

\* C4: GET /accounts answers 404 "accounts not found" whenever the table is
\* empty, and otherwise 200 with exactly one record per account created and
\* not deleted, each the serialized form of its row.
C4_ListReflectsStore ==
    /\ Ids(store) = everIds \ deleted
    /\ (request.method = "GET" /\ request.route = "/accounts")
         => /\ store = before
            /\ IF everIds \ deleted = {}
               THEN response.status = 404 /\ response.error = "accounts not found"
               ELSE /\ response.status = 200
                    /\ Len(response.accounts) = Cardinality(everIds \ deleted)
                    /\ {response.accounts[i] : i \in 1 .. Len(response.accounts)}
                         = {serialize(r) : r \in store}

C4_Witness ==
    /\ request.method = "GET"
    /\ request.route = "/accounts"
    /\ response.status = 200
    /\ Len(response.accounts) = 2
    /\ deleted = {}
    /\ response.accounts[1].name # response.accounts[2].name

\* C5: GET /accounts/<id> answers 200 with the serialized row whenever a row
\* with that id is in the table and 404 "account not found" whenever none
\* is; and a row's id stays in the table across every request but a DELETE
\* of that id.
C5_ReadWhileExists ==
    /\ (request.method = "GET" /\ request.route = "/accounts/<id>")
         => /\ store = before
            /\ IF request.id \in everIds \ deleted
               THEN /\ response.status = 200
                    /\ find(store, request.id) # {}
                    /\ response.account = serialize(RowNow)
               ELSE /\ response.status = 404
                    /\ response.error = "account not found"
    /\ \A i \in Ids(before) :
          i \in Ids(store) \/ (request.method = "DELETE" /\ request.id = i)

C5_Witness ==
    /\ request.method = "GET"
    /\ request.route = "/accounts/<id>"
    /\ response.status = 200
    /\ deleted # {}
    /\ response.account.name = FieldValues.name[2]

\* C6: PUT /accounts/<id> on an existing id with every required field in the
\* payload answers 200; the row then carries the payload's value in each
\* field the payload gives (date_joined kept when the payload has none), its
\* id is unchanged, every other row is unchanged, and find(id) returns the
\* new values, which are also the response.
C6_UpdateChangesGivenFields ==
    (request.method = "PUT" /\ Existed /\ ~MissingRequired)
        => /\ response.status = 200
           /\ Cardinality(find(store, request.id)) = 1
           /\ \A k \in RequiredSet : RowNow[k] = Data[k]
           /\ RowNow.date_joined =
                 IF "date_joined" \in DOMAIN Data
                 THEN fromisoformat(Data["date_joined"])
                 ELSE RowBefore.date_joined
           /\ RowNow.id = request.id
           /\ {r \in store : r.id # request.id} = {r \in before : r.id # request.id}
           /\ response.account = serialize(RowNow)

C6_Witness ==
    /\ request.method = "PUT"
    /\ Existed
    /\ ~MissingRequired
    /\ response.status = 200
    /\ Cardinality(store) = 2
    /\ RowNow.name # RowBefore.name
    /\ "id" \in DOMAIN Data
    /\ Data["id"] # request.id

\* C7 (as stated): PUT /accounts/<id> with an empty or absent body is
\* answered 405; otherwise to an id not in the table 404; otherwise with a
\* required field missing 409 with a JSON body carrying error "attribute
\* error" and the error details.
C7_UpdateFailurePrecedence ==
    request.method = "PUT"
        => IF ~Truthy(request.body) THEN response.status = 405
           ELSE IF ~Existed THEN response.status = 404
           ELSE MissingRequired
                   => /\ response.status = 409
                      /\ response.error = "attribute error"
                      /\ response.details.type # "NoneType"

\* C8: DELETE /accounts/<id> on an existing id answers 204 and removes
\* exactly that row; on an id not in the table it answers 404 "id not found"
\* and leaves the table as it was; and no id a DELETE removed is found again.
C8_DeleteRemovesExactlyOne ==
    /\ request.method = "DELETE"
         => IF Existed
            THEN /\ response.status = 204
                 /\ store = before \ find(before, request.id)
                 /\ find(store, request.id) = {}
            ELSE /\ response.status = 404
                 /\ response.error = "id not found"
                 /\ store = before
    /\ \A i \in deleted : find(store, i) = {}

C8_Witness ==
    /\ request.method = "DELETE"
    /\ response.status = 204
    /\ Cardinality(before) = 2
    /\ Cardinality(store) = 1

\* C9 (as stated, under SpecConc): delete() and update() are never called
\* for an id that has no row in the table at that moment.
C9_NoStaleCall == stale = {}

\* C10 (as stated): every request answered with an error status leaves the
\* table as it was; and a PUT to an existing id whose payload has some but
\* not all required fields is answered 409 and find(id) still returns the
\* original values.
C10_ErrorsLeaveStore ==
    /\ response.status \in {400, 404, 405, 409, 415} => store = before
    /\ (request.method = "PUT" /\ Existed /\ MissingRequired
          /\ DOMAIN Data \cap RequiredSet # {})
         => (response.status = 409 /\ find(store, request.id) = find(before, request.id))

============================================================================
